---------------------------- MODULE Spec2Model ----------------------------
(***************************************************************************)
(* Resume tailoring pipeline (agents_master + app_v5).                     *)
(*                                                                         *)
(* The module holds six state machines over one set of variables:          *)
(*   SpecSelect : parse -> rank -> threshold -> filter, the selection core *)
(*                (BlockRanker, ResumeBuilder._filter_resume_by_threshold) *)
(*   SpecRender : latex_to_pdf, in both implementations                    *)
(*                (ResumeBuilder.latex_to_pdf, utils/latex.py)             *)
(*   SpecCorrect: the correction stage analyze_and_reformat of app_v5      *)
(*                under its retry_on_error wrapper                         *)
(*   SpecPipeline: app_v5.main, every stage under retry_on_error           *)
(*   SpecParse  : the response parsers applied to a response text          *)
(*   SpecExtract: the two markup extractors applied to a response text     *)
(* The external collaborators (language model, pdflatex, file system,      *)
(* pdf2image) answer nondeterministically.                                 *)
(***************************************************************************)
EXTENDS Integers, Sequences, FiniteSets, TLC

VARIABLES
    \* ---- selection pipeline
    sel_pc,            \* stage the pipeline is at
    parsed_resume,     \* block id -> block_type, as returned by the parser
    ranking_result,    \* dict returned by BlockRanker.rank_resume_blocks
    threshold_response,\* text returned by the external threshold call
    threshold_result,  \* dict returned by determine_inclusion_threshold
    filtered_resume,   \* dict returned by _filter_resume_by_threshold
    filtered_blocks,   \* ids of the blocks filter_blocks handed to ranking
    \* ---- render (latex_to_pdf)
    render,            \* invocation -> its position and locals
    temp_dirs,         \* the temporary working directories that exist
    tmp_files,         \* invocation -> the files in its working directory
    out_files,         \* persistent path -> the invocation whose PDF it holds
    \* ---- correction stage (analyze_and_reformat under retry_on_error)
    c_status,          \* idle, running, returned or raised
    c_pc,              \* the step of the body the current attempt is at
    attempt,           \* `attempt` of the retry wrapper's loop
    calls,             \* collaborator calls issued since the stage was invoked
    att_calls,         \* collaborator calls issued by the current attempt
    image_dirs,        \* page-image directories of pdf_to_images that exist
    \* ---- pipeline run (app_v5.main, every stage under retry_on_error)
    run_pc,            \* the stage main is at, or complete / failed
    run_status,        \* idle, running or returned: the stage's wrapper
    run_attempt,       \* `attempt` of the wrapper's loop
    run_calls,         \* stage -> calls of the stage function so far
    run_failures,      \* stage -> calls of the stage function that raised
    run_started,       \* the stages in the order main called them
    run_returned,      \* the stages that returned to main
    run_result,        \* what the wrapper returned to main for the stage
    run_exc,           \* last_exception of the wrapper
    run_raised,        \* the exception that left main
    run_ranking,       \* the ranking result main holds
    run_unparsed,      \* stages that returned although a response did not parse
    run_wellformed,    \* every collaborator reply so far was a well-formed success
    \* ---- response parsing (the parsers applied to one response text)
    p_text,            \* the response text, as a sequence of words
    p_parser,          \* the parser that was applied to it, or none
    p_outcome          \* what that parser returned or raised

selVars == <<sel_pc, parsed_resume, ranking_result, threshold_response,
             threshold_result, filtered_resume, filtered_blocks>>

renderVars == <<render, temp_dirs, tmp_files, out_files>>

corrVars == <<c_status, c_pc, attempt, calls, att_calls, image_dirs>>

runVars == <<run_pc, run_status, run_attempt, run_calls, run_failures,
             run_started, run_returned, run_result, run_exc, run_raised,
             run_ranking, run_unparsed, run_wellformed>>

parseVars == <<p_text, p_parser, p_outcome>>

vars == <<sel_pc, parsed_resume, ranking_result, threshold_response,
          threshold_result, filtered_resume, filtered_blocks,
          render, temp_dirs, tmp_files, out_files,
          c_status, c_pc, attempt, calls, att_calls, image_dirs,
          run_pc, run_status, run_attempt, run_calls, run_failures,
          run_started, run_returned, run_result, run_exc, run_raised,
          run_ranking, run_unparsed, run_wellformed,
          p_text, p_parser, p_outcome>>

---------------------------------------------------------------------------
(* Bounds of the model *)

\* longest must_include list the ranker returns
MaxMust == 1
\* longest ranked_list the ranker returns
MaxRanked == 2
\* ranks the ranker assigns are 1..MaxRank
MaxRank == 2
\* bare integers the threshold call answers are MinResp..MaxResp
MaxResp == 3
\* render invocations that may be in progress at once
NumRenders == 2

---------------------------------------------------------------------------
(* Data *)

\* ids the parser gives its blocks ("block_1", "block_2", ...)
BlockIds == {"block_1", "block_2", "block_3"}

\* a block the parser returned without a "block_type" key
NoType == "<no block_type>"

\* block_type values; "Education" is capitalised the way a model may answer
Kinds == {"contact information", "Education", "skills", "professional summary",
          "work experience", "project", NoType}

\* str.lower() on the block types of the model
Lower(s) == IF s = "Education" THEN "education" ELSE s

\* position of a kind, used only to take parsed resumes up to a renaming of
\* their block ids (no operation of the pipeline distinguishes the ids)
KindOrder(k) ==
    CASE k = "contact information"  -> 1
      [] k = "Education"            -> 2
      [] k = "skills"               -> 3
      [] k = "professional summary" -> 4
      [] k = "work experience"      -> 5
      [] k = "project"              -> 6
      [] OTHER                      -> 7

IdOrder(b) ==
    CASE b = "block_1" -> 1
      [] b = "block_2" -> 2
      [] OTHER         -> 3

\* the parsed resumes the parser may return: every resume holds a work
\* experience block, and resumes are taken up to a renaming of their ids
Resumes ==
    {r \in [BlockIds -> Kinds] :
        /\ \E b \in BlockIds : r[b] = "work experience"
        /\ \A a, b \in BlockIds :
              IdOrder(a) <= IdOrder(b) => KindOrder(r[a]) <= KindOrder(r[b])}

NoResume == [b \in BlockIds |-> NoType]

SeqsUpTo(S, n) == UNION {[1..k -> S] : k \in 0..n}

RankedItems == [block_id : BlockIds, rank : 1..MaxRank]

\* what the ranker's reply parses to when it is JSON of the requested shape
RankerPayloads ==
    [error : {FALSE},
     must_include : SeqsUpTo(BlockIds, MaxMust),
     ranked_list  : SeqsUpTo(RankedItems, MaxRanked)]

\* the dict _parse_ranking_response returns when no JSON is recoverable:
\* {"error": ..., "raw_response": ...}, with no must_include and no ranked_list
ParseErrorResult == [error |-> TRUE, must_include |-> <<>>, ranked_list |-> <<>>]

NoRanking == ParseErrorResult

MinResp == 0 - 1

\* replies of the threshold call: a bare integer, prose whose first run of
\* digits is `value`, or text without any digit
ThresholdResponses ==
    [form : {"integer"}, value : MinResp..MaxResp]
    \cup [form : {"prose"}, value : {1}]
    \cup [form : {"no_digits"}, value : {0}]

NoResponse == [form |-> "none", value |-> 0]

NoThresholdResult ==
    [error |-> TRUE, must_include |-> <<>>, ranked_list |-> <<>>,
     threshold |-> 0, enhanced_ranked_list |-> <<>>]

NoFiltered == [total_blocks |-> 0, blocks |-> {}]

Range(s) == {s[i] : i \in DOMAIN s}

---------------------------------------------------------------------------
(* BlockRanker *)

excluded_types == {"education", "professional summary", "skills", "contact information"}

\* the block type is compared as written, without lower()
filter_blocks_as_written(resume) ==
    {b \in DOMAIN resume :
        resume[b] # NoType /\ resume[b] \notin excluded_types}

\* BlockRanker.filter_blocks: the ids of the blocks handed to ranking
filter_blocks(resume) ==
    {b \in DOMAIN resume :
        resume[b] # NoType /\ Lower(resume[b]) \notin excluded_types}

\* BlockRanker._parse_ranking_response on the parsed reply
parse_ranking_response(reply) == reply

\* the fixed fallback of determine_inclusion_threshold
DefaultThreshold == 2

\* determine_inclusion_threshold, lines 236-247: int(text.strip()), else the
\* first \b(\d+)\b of the text, else the default
ExtractThreshold(resp) ==
    CASE resp.form = "integer" -> resp.value
      [] resp.form = "prose"   -> resp.value
      [] OTHER                 -> DefaultThreshold

\* the stage checks the coverage and fails loudly when a block handed to
\* ranking is in neither list
ThresholdRaisesOnOmission(ranking, resume) ==
    \/ ranking.error
    \/ \E i \in DOMAIN ranking.ranked_list :
          resume[ranking.ranked_list[i].block_id] = NoType
    \/ \E i \in DOMAIN ranking.must_include :
          resume[ranking.must_include[i]] = NoType
    \/ \E b \in filter_blocks(resume) :
          /\ b \notin Range(ranking.must_include)
          /\ \A i \in DOMAIN ranking.ranked_list : ranking.ranked_list[i].block_id # b

\* determine_inclusion_threshold reads parsed_resume[block_id]["block_type"] of
\* every listed block and ranking_result["ranked_list"]: a KeyError otherwise
ThresholdRaises(ranking, resume) ==
    \/ ranking.error
    \/ \E i \in DOMAIN ranking.ranked_list :
          resume[ranking.ranked_list[i].block_id] = NoType
    \/ \E i \in DOMAIN ranking.must_include :
          resume[ranking.must_include[i]] = NoType

enhanced_ranked_list(ranking, resume) ==
    [i \in DOMAIN ranking.ranked_list |->
        [block_id |-> ranking.ranked_list[i].block_id,
         rank     |-> ranking.ranked_list[i].rank,
         type     |-> Lower(resume[ranking.ranked_list[i].block_id])]]

\* enhanced_result is the caller's dictionary itself, so the item assignments
\* that follow are written into the argument
ranking_written_through(ranking, enhanced) == enhanced

\* what the caller's ranking_result holds after determine_inclusion_threshold:
\* `enhanced_result = ranking_result.copy()` makes the item assignments of
\* lines 250-252 go to a new dictionary, none reaches the argument
ranking_after_threshold(ranking, enhanced) == ranking

\* the dict determine_inclusion_threshold returns: a copy of ranking_result
\* with threshold and enhanced_ranked_list added
determine_inclusion_threshold(ranking, resume, resp) ==
    [error        |-> ranking.error,
     must_include |-> ranking.must_include,
     ranked_list  |-> ranking.ranked_list,
     threshold    |-> ExtractThreshold(resp),
     enhanced_ranked_list |-> enhanced_ranked_list(ranking, resume)]

---------------------------------------------------------------------------
(* ResumeBuilder._filter_resume_by_threshold *)

always_included == {"education", "skills", "professional summary"}

\* the rank test written as a strict comparison
blocks_to_include_strict(result) ==
    Range(result.must_include)
    \cup {result.ranked_list[i].block_id :
             i \in {j \in DOMAIN result.ranked_list :
                       result.ranked_list[j].rank < result.threshold}}

\* the rank test written as an equality (only the block at the threshold)
blocks_to_include_exact(result) ==
    Range(result.must_include)
    \cup {result.ranked_list[i].block_id :
             i \in {j \in DOMAIN result.ranked_list :
                       result.ranked_list[j].rank = result.threshold}}

blocks_to_include(result) ==
    Range(result.must_include)
    \cup {result.ranked_list[i].block_id :
             i \in {j \in DOMAIN result.ranked_list :
                       result.ranked_list[j].rank <= result.threshold}}

filter_resume_by_threshold(resume, result) ==
    [total_blocks |-> Cardinality(blocks_to_include(result)),
     blocks |->
        {b \in DOMAIN resume : b \in blocks_to_include(result)}
        \cup {b \in DOMAIN resume :
                 resume[b] # NoType /\ Lower(resume[b]) \in always_included}]

---------------------------------------------------------------------------
(* Render: ResumeBuilder.latex_to_pdf and utils/latex.py latex_to_pdf *)

Renders == 1..NumRenders

Impls == {"ResumeBuilder", "utils"}

None == "None"

\* the output_path argument; None makes the copy go to <cwd>/document.pdf
OutputPaths == {"tailored_resume.pdf", None}

CwdPdf == "document.pdf"

IdleRender ==
    [pc |-> "idle", impl |-> None, output_path |-> None, runs |-> 0,
     returncode |-> 0, nonzero_seen |-> FALSE, pdf_found |-> "unchecked",
     outcome |-> None, result |-> None, caller |-> None, latex_path |-> None]

\* no collaborator call has been issued
NoCalls == [inspect |-> 0, regenerate |-> 0, rerender |-> 0]

\* the correction stage has not been invoked
CorrectIdle ==
    /\ c_status = "idle"
    /\ c_pc = "boundary"
    /\ attempt = 0
    /\ calls = NoCalls
    /\ att_calls = NoCalls
    /\ image_dirs = 0

\* the stages of app_v5.main in the order main calls them
Stages ==
    <<"parse_resume", "condense_job", "rank_resume_blocks",
      "determine_threshold", "build_gold_resume", "analyze_and_reformat">>

StageNames == Range(Stages)

\* last_exception = None in the wrapper; nothing has left main
NoExc == [stage |-> None, attempt |-> 0, kind |-> None]

\* the wrapper has returned nothing yet
NoResult == [stage |-> None, attempt |-> 0, value |-> None]

\* the pipeline has not been started
RunIdle ==
    /\ run_pc = "parse_resume"
    /\ run_status = "idle"
    /\ run_attempt = 0
    /\ run_calls = [s \in StageNames |-> 0]
    /\ run_failures = [s \in StageNames |-> 0]
    /\ run_started = <<>>
    /\ run_returned = {}
    /\ run_result = NoResult
    /\ run_exc = NoExc
    /\ run_raised = NoExc
    /\ run_ranking = "none"
    /\ run_unparsed = {}
    /\ run_wellformed = TRUE

\* no parser has been applied
NoOutcome == [status |-> "none", value |-> None]

ParseIdle ==
    /\ p_text = <<>>
    /\ p_parser = "none"
    /\ p_outcome = NoOutcome

RenderIdle ==
    /\ render = [p \in Renders |-> IdleRender]
    /\ temp_dirs = {}
    /\ tmp_files = [p \in Renders |-> {}]
    /\ out_files = [f \in {"tailored_resume.pdf", CwdPdf, "tailored_resume.tex"} |-> 0]

\* leaving the with block removes the working directory on some exits only
ExitTempDirOnSuccessOnly(dirs, d, raised) == IF raised THEN dirs ELSE dirs \ {d}

\* `with tempfile.TemporaryDirectory() as temp_dir`: leaving the block, by
\* return or by exception, removes the directory and what it holds
ExitTempDir(dirs, d, raised) == dirs \ {d}

\* number of pdflatex runs before the PDF is looked for:
\* `for i in range(2)` in ResumeBuilder, one subprocess.run in utils/latex.py
Passes(impl) == IF impl = "ResumeBuilder" THEN 2 ELSE 1

\* the exit status decides, the file is not looked for
CheckOutcomeTrustExit(impl, returncode, pdf_exists) ==
    IF returncode # 0 THEN "nonzero_exit" ELSE "copy"

\* the exit status is ignored by both implementations
CheckOutcomeIgnoreExit(impl, returncode, pdf_exists) ==
    IF pdf_exists THEN "copy" ELSE "no_pdf"

\* what follows the compilation. utils/latex.py lines 45-50: a nonzero
\* returncode raises, then a missing PDF raises. ResumeBuilder lines 141-175:
\* "Check if PDF was created, regardless of return code".
CheckOutcome(impl, returncode, pdf_exists) ==
    IF impl = "utils" /\ returncode # 0 THEN "nonzero_exit"
    ELSE IF pdf_exists THEN "copy"
    ELSE "no_pdf"

InitRender ==
    /\ sel_pc = "idle"
    /\ parsed_resume = NoResume
    /\ ranking_result = NoRanking
    /\ threshold_response = NoResponse
    /\ threshold_result = NoThresholdResult
    /\ filtered_resume = NoFiltered
    /\ filtered_blocks = {}
    /\ RenderIdle
    /\ CorrectIdle
    /\ RunIdle
    /\ ParseIdle

\* the invocation leaves the with block by an exception
Raise(p, why) ==
    /\ render' = [render EXCEPT ![p].pc = "raised", ![p].outcome = why]
    /\ temp_dirs' = ExitTempDir(temp_dirs, p, TRUE)
    /\ tmp_files' = [tmp_files EXCEPT ![p] =
                        IF p \in temp_dirs' THEN tmp_files[p] ELSE {}]

\* latex_to_pdf is called: the temporary directory is created
CallLatexToPdf(p) ==
    /\ render[p].pc = "idle"
    /\ \E impl \in Impls, path \in OutputPaths :
          render' = [render EXCEPT ![p].pc = "write_tex", ![p].impl = impl,
                                   ![p].output_path = path,
                                   ![p].caller = "latex_to_pdf"]
    /\ temp_dirs' = temp_dirs \cup {p}
    /\ UNCHANGED <<tmp_files, out_files>>
    /\ UNCHANGED <<selVars, corrVars, runVars, parseVars>>

\* build_resume_pdf, line 58: build_resume returns the markup
BuildResume(p) ==
    /\ render[p].pc = "idle"
    /\ render' = [render EXCEPT ![p].pc = "save_latex",
                                ![p].caller = "build_resume_pdf"]
    /\ UNCHANGED <<temp_dirs, tmp_files, out_files>>
    /\ UNCHANGED <<selVars, corrVars, runVars, parseVars>>

\* build_resume raises (the synthesis call fails): nothing has been written
BuildResumeFails(p) ==
    /\ render[p].pc = "idle"
    /\ render' = [render EXCEPT ![p].pc = "raised", ![p].outcome = "build_error",
                                ![p].caller = "build_resume_pdf"]
    /\ UNCHANGED <<temp_dirs, tmp_files, out_files>>
    /\ UNCHANGED <<selVars, corrVars, runVars, parseVars>>

\* build_resume_pdf, lines 60-66: <output_file>.tex is written, then
\* self.latex_to_pdf(latex_code, f"{output_file}.pdf") is called
SaveLatex(p) ==
    /\ render[p].pc = "save_latex"
    /\ render' = [render EXCEPT ![p].pc = "write_tex",
                                ![p].latex_path = "tailored_resume.tex",
                                ![p].impl = "ResumeBuilder",
                                ![p].output_path = "tailored_resume.pdf"]
    /\ out_files' = [out_files EXCEPT !["tailored_resume.tex"] = p]
    /\ temp_dirs' = temp_dirs \cup {p}
    /\ UNCHANGED tmp_files
    /\ UNCHANGED <<selVars, corrVars, runVars, parseVars>>

\* document.tex is written into the working directory
WriteTex(p) ==
    /\ render[p].pc = "write_tex"
    /\ render' = [render EXCEPT ![p].pc = "run"]
    /\ tmp_files' = [tmp_files EXCEPT ![p] = @ \cup {"document.tex"}]
    /\ UNCHANGED <<temp_dirs, out_files>>
    /\ UNCHANGED <<selVars, corrVars, runVars, parseVars>>

\* writing document.tex fails (the open is outside the try block)
WriteTexFails(p) ==
    /\ render[p].pc = "write_tex"
    /\ Raise(p, "write_error")
    /\ UNCHANGED out_files
    /\ UNCHANGED <<selVars, corrVars, runVars, parseVars>>

\* one run of pdflatex: any exit status, with or without document.pdf
RunPdflatex(p) ==
    /\ render[p].pc = "run"
    /\ \E code \in {0, 1}, pdf \in BOOLEAN :
          /\ render' = [render EXCEPT
                ![p].runs = @ + 1,
                ![p].returncode = code,
                ![p].nonzero_seen = @ \/ code # 0,
                ![p].pc = IF render[p].runs + 1 = Passes(render[p].impl)
                          THEN "check" ELSE "run"]
          /\ tmp_files' = [tmp_files EXCEPT ![p] =
                (@ \ {"document.pdf"}) \cup (IF pdf THEN {"document.pdf"} ELSE {})]
    /\ UNCHANGED <<temp_dirs, out_files>>
    /\ UNCHANGED <<selVars, corrVars, runVars, parseVars>>

\* subprocess.run raises (pdflatex cannot be started)
RunPdflatexRaises(p) ==
    /\ render[p].pc = "run"
    /\ Raise(p, "process_error")
    /\ UNCHANGED out_files
    /\ UNCHANGED <<selVars, corrVars, runVars, parseVars>>

\* the checks that follow the compilation
CheckPdf(p) ==
    /\ render[p].pc = "check"
    /\ LET pdf_exists == "document.pdf" \in tmp_files[p]
           next == CheckOutcome(render[p].impl, render[p].returncode, pdf_exists)
           found == IF pdf_exists THEN "yes" ELSE "no"
       IN  IF next = "copy"
           THEN /\ render' = [render EXCEPT ![p].pc = "copy", ![p].pdf_found = found]
                /\ UNCHANGED <<temp_dirs, tmp_files>>
           ELSE /\ render' = [render EXCEPT ![p].pc = "raised", ![p].outcome = next,
                                            ![p].pdf_found = found]
                /\ temp_dirs' = ExitTempDir(temp_dirs, p, TRUE)
                /\ tmp_files' = [tmp_files EXCEPT ![p] =
                                    IF p \in temp_dirs' THEN tmp_files[p] ELSE {}]
    /\ UNCHANGED out_files
    /\ UNCHANGED <<selVars, corrVars, runVars, parseVars>>

Destination(path) == IF path = None THEN CwdPdf ELSE path

\* shutil.copy to the output path (or to <cwd>/document.pdf), then return
CopyPdf(p) ==
    /\ render[p].pc = "copy"
    /\ render' = [render EXCEPT ![p].pc = "returned", ![p].outcome = "success",
                                ![p].result = Destination(render[p].output_path)]
    /\ out_files' = [out_files EXCEPT ![Destination(render[p].output_path)] = p]
    /\ temp_dirs' = ExitTempDir(temp_dirs, p, FALSE)
    /\ tmp_files' = [tmp_files EXCEPT ![p] =
                        IF p \in temp_dirs' THEN tmp_files[p] ELSE {}]
    /\ UNCHANGED <<selVars, corrVars, runVars, parseVars>>

\* os.makedirs or shutil.copy raises
CopyPdfFails(p) ==
    /\ render[p].pc = "copy"
    /\ Raise(p, "copy_error")
    /\ UNCHANGED out_files
    /\ UNCHANGED <<selVars, corrVars, runVars, parseVars>>

NextRender ==
    \E p \in Renders :
        \/ CallLatexToPdf(p)
        \/ BuildResume(p)
        \/ BuildResumeFails(p)
        \/ SaveLatex(p)
        \/ WriteTex(p)
        \/ WriteTexFails(p)
        \/ RunPdflatex(p)
        \/ RunPdflatexRaises(p)
        \/ CheckPdf(p)
        \/ CopyPdf(p)
        \/ CopyPdfFails(p)

SpecRender == InitRender /\ [][NextRender]_vars

---------------------------------------------------------------------------
(* Correction stage: app_v5.analyze_and_reformat under retry_on_error *)

\* @retry_on_error(max_retries=3, initial_delay=1)
max_retries == 3

\* the parsed resume and threshold results the stage is invoked with
CorrectResume ==
    [b \in BlockIds |->
        CASE b = "block_1" -> "work experience"
          [] b = "block_2" -> "project"
          [] OTHER         -> "Education"]

CorrectInputs ==
    {determine_inclusion_threshold(
        [error |-> FALSE, must_include |-> <<"block_1">>, ranked_list |-> rl],
        CorrectResume, [form |-> "integer", value |-> t]) :
            rl \in SeqsUpTo({[block_id |-> "block_2", rank |-> 1]}, 1),
            t \in MinResp..1}

\* the body goes back to inspecting after the re-render (retry until it fits)
NextStepLoop(pc) ==
    CASE pc = "boundary"      -> "pdf_to_images"
      [] pc = "pdf_to_images" -> "analyze_with_vlm"
      [] pc = "analyze_with_vlm" -> "regenerate"
      [] pc = "regenerate"    -> "rerender"
      [] OTHER                -> "pdf_to_images"

\* the straight-line order of analyze_and_reformat's body
NextStep(pc) ==
    CASE pc = "boundary"      -> "pdf_to_images"
      [] pc = "pdf_to_images" -> "analyze_with_vlm"
      [] pc = "analyze_with_vlm" -> "regenerate"
      [] pc = "regenerate"    -> "rerender"
      [] OTHER                -> "done"

\* the state of the correction state machine the body is in
CorrectionState(pc) ==
    CASE pc \in {"boundary", "pdf_to_images", "analyze_with_vlm"} -> "Rendered"
      [] pc = "regenerate" -> "Inspected"
      [] pc = "rerender"   -> "Corrected"
      [] OTHER             -> "Rerendered"

\* app_v5 lines 273-291: enhanced_ranked_list[threshold-1] is read when
\* 0 < threshold <= len, enhanced_ranked_list[threshold] when threshold < len;
\* a negative index beyond the list's length is an IndexError
BoundaryRaises(result) ==
    /\ result.threshold < Len(result.enhanced_ranked_list)
    /\ result.threshold < 0
    /\ -result.threshold > Len(result.enhanced_ranked_list)

\* app_v5 lines 271-280: the block at list position threshold (index
\* threshold-1), when 0 < threshold <= len(enhanced_ranked_list)
last_block_within(result) ==
    LET t == result.threshold
        l == result.enhanced_ranked_list
    IN  IF t > 0 /\ t <= Len(l) THEN l[t].block_id ELSE None

\* app_v5 lines 282-291: the block at index threshold, when
\* threshold < len(enhanced_ranked_list); a negative index counts from the
\* end of the list and is an IndexError beyond its length
first_block_outside(result) ==
    LET t == result.threshold
        l == result.enhanced_ranked_list
    IN  IF t < Len(l)
        THEN IF t >= 0 THEN l[t + 1].block_id
             ELSE IF -t <= Len(l) THEN l[Len(l) + t + 1].block_id
             ELSE "IndexError"
        ELSE None

InitCorrect ==
    /\ sel_pc = "idle"
    /\ parsed_resume = CorrectResume
    /\ ranking_result = NoRanking
    /\ threshold_response = NoResponse
    /\ threshold_result \in CorrectInputs
    /\ filtered_resume = NoFiltered
    /\ filtered_blocks = {}
    /\ RenderIdle
    /\ CorrectIdle
    /\ RunIdle
    /\ ParseIdle

\* the stage is invoked: the wrapper starts its first attempt
CallAnalyzeAndReformat ==
    /\ c_status = "idle"
    /\ c_status' = "running"
    /\ UNCHANGED <<c_pc, attempt, calls, att_calls, image_dirs>>
    /\ UNCHANGED <<selVars, renderVars, runVars, parseVars>>

\* a step of the body completes
Advance ==
    /\ c_pc' = NextStep(c_pc)
    /\ c_status' = IF c_pc' = "done" THEN "returned" ELSE "running"
    /\ UNCHANGED attempt

\* retry_on_error, lines 34-46: the body raised; a new attempt starts while
\* attempt < max_retries, otherwise the exception is raised to the caller
Fail ==
    IF attempt < max_retries
    THEN /\ attempt' = attempt + 1
         /\ c_pc' = "boundary"
         /\ c_status' = "running"
         /\ att_calls' = NoCalls
    ELSE /\ c_status' = "raised"
         /\ UNCHANGED <<attempt, c_pc>>
         /\ att_calls' = att_calls

\* lines 267-295: the blocks at the selection boundary
BoundaryBlocks ==
    /\ c_status = "running" /\ c_pc = "boundary"
    /\ IF BoundaryRaises(threshold_result)
       THEN Fail
       ELSE Advance /\ UNCHANGED att_calls
    /\ UNCHANGED <<calls, image_dirs>>
    /\ UNCHANGED <<selVars, renderVars, runVars, parseVars>>

\* ResumeReformatter.pdf_to_images: mkdtemp, then the pages are saved into it
PdfToImages ==
    /\ c_status = "running" /\ c_pc = "pdf_to_images"
    /\ Advance
    /\ image_dirs' = image_dirs + 1
    /\ UNCHANGED <<calls, att_calls>>
    /\ UNCHANGED <<selVars, renderVars, runVars, parseVars>>

\* pdf_to_images fails: the except branch removes the directory and raises
PdfToImagesFails ==
    /\ c_status = "running" /\ c_pc = "pdf_to_images"
    /\ Fail
    /\ UNCHANGED <<calls, image_dirs>>
    /\ UNCHANGED <<selVars, renderVars, runVars, parseVars>>

\* ResumeReformatter.analyze_with_vlm: the inspect call to the vision model
AnalyzeWithVlm ==
    /\ c_status = "running" /\ c_pc = "analyze_with_vlm"
    /\ calls' = [calls EXCEPT !.inspect = @ + 1]
    /\ \/ Advance /\ att_calls' = [att_calls EXCEPT !.inspect = @ + 1]
       \/ Fail
    /\ UNCHANGED image_dirs
    /\ UNCHANGED <<selVars, renderVars, runVars, parseVars>>

\* save_intermediate of the recommendations fails before the regeneration
SaveRecommendationsFails ==
    /\ c_status = "running" /\ c_pc = "regenerate"
    /\ Fail
    /\ UNCHANGED <<calls, image_dirs>>
    /\ UNCHANGED <<selVars, renderVars, runVars, parseVars>>

\* ResumeReformatter.regenerate_resume: the regeneration call
RegenerateResume ==
    /\ c_status = "running" /\ c_pc = "regenerate"
    /\ calls' = [calls EXCEPT !.regenerate = @ + 1]
    /\ \/ Advance /\ att_calls' = [att_calls EXCEPT !.regenerate = @ + 1]
       \/ Fail
    /\ UNCHANGED image_dirs
    /\ UNCHANGED <<selVars, renderVars, runVars, parseVars>>

\* lines 318-326: saving the regenerated markup or writing the .tex file
\* fails before latex_to_pdf is called
WriteRegeneratedFails ==
    /\ c_status = "running" /\ c_pc = "rerender"
    /\ Fail
    /\ UNCHANGED <<calls, image_dirs>>
    /\ UNCHANGED <<selVars, renderVars, runVars, parseVars>>

\* lines 328-336: the regenerated markup is rendered by latex_to_pdf
Rerender ==
    /\ c_status = "running" /\ c_pc = "rerender"
    /\ calls' = [calls EXCEPT !.rerender = @ + 1]
    /\ \/ Advance /\ att_calls' = [att_calls EXCEPT !.rerender = @ + 1]
       \/ Fail
    /\ UNCHANGED image_dirs
    /\ UNCHANGED <<selVars, renderVars, runVars, parseVars>>

NextCorrect ==
    \/ CallAnalyzeAndReformat
    \/ BoundaryBlocks
    \/ PdfToImages
    \/ PdfToImagesFails
    \/ AnalyzeWithVlm
    \/ SaveRecommendationsFails
    \/ RegenerateResume
    \/ WriteRegeneratedFails
    \/ Rerender

SpecCorrect == InitCorrect /\ [][NextCorrect]_vars

---------------------------------------------------------------------------
(* Pipeline run: app_v5.main, each stage function under retry_on_error *)

StageIndex(s) == CHOOSE i \in DOMAIN Stages : Stages[i] = s

\* what the stage's external collaborator can answer on one call
Replies(s) ==
    CASE s = "parse_resume"       -> {"call_error", "no_json", "blocks", "result_prompt"}
      [] s = "condense_job"       -> {"call_error", "unparseable", "json"}
      [] s = "rank_resume_blocks" -> {"call_error", "unparseable", "json"}
      [] s = "determine_threshold" -> {"call_error", "integer", "no_digits"}
      [] s = "build_gold_resume"  -> {"call_error", "render_error", "markup_and_pdf"}
      [] OTHER -> {"inspect_error", "regenerate_error", "rerender_error", "fits"}

\* the replies of a collaborator that did what was asked of it: the parser
\* answered with a block dictionary, the condenser and the ranker with the
\* JSON asked for, the threshold call with an integer, synthesis with markup
\* that pdflatex compiled, the inspector, regeneration and re-render likewise
WellFormed(s) ==
    CASE s = "parse_resume"       -> {"blocks"}
      [] s = "condense_job"       -> {"json"}
      [] s = "rank_resume_blocks" -> {"json"}
      [] s = "determine_threshold" -> {"integer"}
      [] s = "build_gold_resume"  -> {"markup_and_pdf"}
      [] OTHER -> {"fits"}

Raised(kind) == [ok |-> FALSE, exc |-> kind, out |-> None, unparsed |-> FALSE]

Returned(value) == [ok |-> TRUE, exc |-> None, out |-> value, unparsed |-> FALSE]

\* one call of the stage function: what it returns or raises.
\*  parse_resume: parse_latex raises ValueError without JSON; its result is the
\*    parsed JSON itself, which the stage indexes with ["result"].
\*  condense_job: condense returns an error dictionary for an unparseable
\*    reply, which the stage indexes with ["result"].
\*  rank_resume_blocks: _parse_ranking_response returns an error dictionary,
\*    rank_blocks adds "prompt" to it and the stage returns it.
\*  determine_threshold: ranking_result["ranked_list"] is read first.
\*  build_gold_resume: after build_resume_pdf the stage indexes the str that
\*    _generate_latex returns with ["prompt"].
StageBody(s, reply, ranking) ==
    CASE s = "parse_resume" ->
            IF reply = "call_error" THEN Raised("call_error")
            ELSE IF reply = "no_json" THEN Raised("ValueError")
            ELSE IF reply = "blocks" THEN Raised("KeyError")
            ELSE Returned("parsed_resume")
      [] s = "condense_job" ->
            IF reply = "call_error" THEN Raised("call_error")
            ELSE IF reply = "unparseable" THEN Raised("KeyError")
            ELSE Returned("job_requirements")
      [] s = "rank_resume_blocks" ->
            IF reply = "call_error" THEN Raised("call_error")
            ELSE IF reply = "unparseable"
                 THEN [Returned("error_dict") EXCEPT !.unparsed = TRUE]
            ELSE Returned("ranking")
      [] s = "determine_threshold" ->
            IF ranking = "error_dict" THEN Raised("KeyError")
            ELSE IF reply = "call_error" THEN Raised("call_error")
            ELSE Returned("threshold_result")
      [] s = "build_gold_resume" ->
            IF reply = "call_error" THEN Raised("call_error")
            ELSE IF reply = "render_error" THEN Raised("RuntimeError")
            ELSE Raised("TypeError")
      [] OTHER ->
            IF reply = "fits" THEN Returned("regenerated_pdf")
            ELSE Raised(reply)

\* the wrapper retries once more than max_retries allows
WrapperStepOneMore(att, ok) ==
    IF ok THEN "return"
    ELSE IF att <= max_retries THEN "retry"
    ELSE "raise"

\* the wrapper falls out of its loop without raising when retries are exhausted
WrapperStepSwallow(att, ok) ==
    IF ok THEN "return"
    ELSE IF att < max_retries THEN "retry"
    ELSE "return"

\* retry_on_error.wrapper, lines 34-46: `return func(...)`; on an exception
\* retry while attempt < max_retries, else `raise last_exception`
WrapperStep(att, ok) ==
    IF ok THEN "return"
    ELSE IF att < max_retries THEN "retry"
    ELSE "raise"

\* main logs the terminal failure of a stage and goes on to the next stage
OnStageErrorContinue(s) ==
    IF StageIndex(s) = Len(Stages) THEN "complete" ELSE Stages[StageIndex(s) + 1]

\* main has no try/except around its stage calls: the exception a wrapper
\* raises ends the run
OnStageError(s) == "failed"

InitPipeline ==
    /\ sel_pc = "idle"
    /\ parsed_resume = NoResume
    /\ ranking_result = NoRanking
    /\ threshold_response = NoResponse
    /\ threshold_result = NoThresholdResult
    /\ filtered_resume = NoFiltered
    /\ filtered_blocks = {}
    /\ RenderIdle
    /\ CorrectIdle
    /\ RunIdle
    /\ ParseIdle

\* main calls the wrapped stage function
CallStage ==
    /\ run_pc \in StageNames /\ run_status = "idle"
    /\ run_status' = "running"
    /\ run_attempt' = 0
    /\ run_started' = Append(run_started, run_pc)
    /\ UNCHANGED <<run_pc, run_calls, run_failures, run_returned, run_result,
                   run_exc, run_raised, run_ranking, run_unparsed, run_wellformed>>
    /\ UNCHANGED <<selVars, renderVars, corrVars, parseVars>>

\* an attempt of the wrapper ends in `return`
AttemptReturns ==
    /\ run_pc \in StageNames /\ run_status = "running"
    /\ \E reply \in Replies(run_pc) :
          LET o == StageBody(run_pc, reply, run_ranking) IN
          /\ WrapperStep(run_attempt, o.ok) = "return"
          /\ run_result' = [stage |-> run_pc, attempt |-> run_attempt, value |-> o.out]
          /\ run_ranking' = IF run_pc = "rank_resume_blocks" /\ o.ok
                            THEN o.out ELSE run_ranking
          /\ run_unparsed' = IF o.unparsed THEN run_unparsed \cup {run_pc}
                             ELSE run_unparsed
          /\ run_failures' = IF o.ok THEN run_failures
                             ELSE [run_failures EXCEPT ![run_pc] = @ + 1]
          /\ run_wellformed' = (run_wellformed /\ reply \in WellFormed(run_pc))
    /\ run_calls' = [run_calls EXCEPT ![run_pc] = @ + 1]
    /\ run_status' = "returned"
    /\ run_returned' = run_returned \cup {run_pc}
    /\ UNCHANGED <<run_pc, run_attempt, run_started, run_exc, run_raised>>
    /\ UNCHANGED <<selVars, renderVars, corrVars, parseVars>>

\* an attempt raises and the wrapper goes round its loop again
AttemptRetries ==
    /\ run_pc \in StageNames /\ run_status = "running"
    /\ \E reply \in Replies(run_pc) :
          LET o == StageBody(run_pc, reply, run_ranking) IN
          /\ WrapperStep(run_attempt, o.ok) = "retry"
          /\ run_exc' = [stage |-> run_pc, attempt |-> run_attempt, kind |-> o.exc]
          /\ run_wellformed' = (run_wellformed /\ reply \in WellFormed(run_pc))
    /\ run_calls' = [run_calls EXCEPT ![run_pc] = @ + 1]
    /\ run_failures' = [run_failures EXCEPT ![run_pc] = @ + 1]
    /\ run_attempt' = run_attempt + 1
    /\ UNCHANGED <<run_pc, run_status, run_started, run_returned, run_result,
                   run_raised, run_ranking, run_unparsed>>
    /\ UNCHANGED <<selVars, renderVars, corrVars, parseVars>>

\* the last attempt raises: the wrapper raises last_exception, which leaves main
AttemptRaises ==
    /\ run_pc \in StageNames /\ run_status = "running"
    /\ \E reply \in Replies(run_pc) :
          LET o == StageBody(run_pc, reply, run_ranking)
              e == [stage |-> run_pc, attempt |-> run_attempt, kind |-> o.exc] IN
          /\ WrapperStep(run_attempt, o.ok) = "raise"
          /\ run_exc' = e
          /\ run_raised' = e
          /\ run_wellformed' = (run_wellformed /\ reply \in WellFormed(run_pc))
    /\ run_calls' = [run_calls EXCEPT ![run_pc] = @ + 1]
    /\ run_failures' = [run_failures EXCEPT ![run_pc] = @ + 1]
    /\ run_pc' = OnStageError(run_pc)
    /\ run_status' = "idle"
    /\ UNCHANGED <<run_attempt, run_started, run_returned, run_result,
                   run_ranking, run_unparsed>>
    /\ UNCHANGED <<selVars, renderVars, corrVars, parseVars>>

\* main goes on to the next stage with what the stage returned
Proceed ==
    /\ run_pc \in StageNames /\ run_status = "returned"
    /\ run_pc' = IF StageIndex(run_pc) = Len(Stages) THEN "complete"
                 ELSE Stages[StageIndex(run_pc) + 1]
    /\ run_status' = "idle"
    /\ UNCHANGED <<run_attempt, run_calls, run_failures, run_started,
                   run_returned, run_result, run_exc, run_raised, run_ranking,
                   run_unparsed, run_wellformed>>
    /\ UNCHANGED <<selVars, renderVars, corrVars, parseVars>>

NextPipeline ==
    \/ CallStage
    \/ AttemptReturns
    \/ AttemptRetries
    \/ AttemptRaises
    \/ Proceed

\* main is one sequential thread and every call it makes returns or raises
SpecPipeline == InitPipeline /\ [][NextPipeline]_vars /\ WF_vars(NextPipeline)

---------------------------------------------------------------------------
(* Response parsing: the parsers of the stages applied to a response text *)

\* longest response text, in words
MaxWords == 3

\* the integer the word "digits" spells
DigitsValue == 3

\* A response text is a sequence of whitespace-separated words:
\*   prose       a word without digit, brace or backquote
\*   alnum       digits glued to letters, such as top2
\*   digits      an integer, neg_digits the same with a minus sign
\*   fence       ```       fence_json  ```json
\*   obj         the JSON payload, written with double quotes
\*   obj_sq      the same payload written with single quotes
\*   bad_obj     braces around text that is not JSON
Words == {"prose", "alnum", "digits", "neg_digits", "fence", "fence_json",
          "obj", "obj_sq", "bad_obj"}

Texts == SeqsUpTo(Words, MaxWords)

IsFence(w) == w \in {"fence", "fence_json"}

HasBrace(w) == w \in {"obj", "obj_sq", "bad_obj"}

Loaded(v) == [ok |-> TRUE, value |-> v]

NotLoaded == [ok |-> FALSE, value |-> None]

\* json.loads: the text must be one JSON value, surrounding whitespace aside
json_loads(text) ==
    IF text = <<"obj">> THEN Loaded("payload")
    ELSE IF text = <<"digits">> \/ text = <<"neg_digits">> THEN Loaded("number")
    ELSE NotLoaded

\* text with the words for which Keep(w) is false removed
RECURSIVE Without(_, _)
Without(text, drop) ==
    IF text = <<>> THEN <<>>
    ELSE IF Head(text) \in drop THEN Without(Tail(text), drop)
    ELSE <<Head(text)>> \o Without(Tail(text), drop)

\* re.search(r'```(?:json)?\s*([\s\S]*?)\s*```'): the words between the first
\* fence and the fence that follows it
FenceMatch(text) ==
    \E i, j \in DOMAIN text : i < j /\ IsFence(text[i]) /\ IsFence(text[j])

FencedGroup(text) ==
    LET i == CHOOSE i \in DOMAIN text :
                /\ IsFence(text[i])
                /\ \A k \in 1..(i - 1) : ~IsFence(text[k])
        j == CHOOSE j \in DOMAIN text :
                /\ j > i /\ IsFence(text[j])
                /\ \A k \in (i + 1)..(j - 1) : ~IsFence(text[k])
    IN  SubSeq(text, i + 1, j - 1)

\* re.search(r'({[\s\S]*})'): from the first opening brace to the last closing
BraceMatch(text) == \E i \in DOMAIN text : HasBrace(text[i])

BraceGroup(text) ==
    LET i == CHOOSE i \in DOMAIN text :
                HasBrace(text[i]) /\ \A k \in 1..(i - 1) : ~HasBrace(text[k])
        j == CHOOSE j \in DOMAIN text :
                HasBrace(text[j]) /\ \A k \in (j + 1)..Len(text) : ~HasBrace(text[k])
    IN  SubSeq(text, i, j)

\* str.replace("'", "\""): the single-quoted payload becomes the payload
RECURSIVE ReplaceQuotes(_)
ReplaceQuotes(text) ==
    IF text = <<>> THEN <<>>
    ELSE <<IF Head(text) = "obj_sq" THEN "obj" ELSE Head(text)>>
         \o ReplaceQuotes(Tail(text))

Returns(v) == [status |-> "returned", value |-> v]

Raises(e) == [status |-> "raised", value |-> e]

\* BlockRanker._parse_ranking_response: json.loads of the text, else of the
\* fenced block, else the error dictionary
parse_ranking_response_text(text) ==
    IF json_loads(text).ok THEN json_loads(text).value
    ELSE IF FenceMatch(text) /\ json_loads(FencedGroup(text)).ok
         THEN json_loads(FencedGroup(text)).value
    ELSE "error_dict"

\* BlockRanker.rank_blocks: result["prompt"] = prompt, return result
rank_blocks(text) ==
    IF parse_ranking_response_text(text) = "number" THEN Raises("TypeError")
    ELSE Returns(parse_ranking_response_text(text))

\* JobCondenser.condense: {"result": ...} or the error dictionary
condense(text) ==
    IF json_loads(text).ok THEN Returns("result")
    ELSE IF FenceMatch(text) /\ json_loads(FencedGroup(text)).ok
         THEN Returns("result")
    ELSE Returns("error_dict")

\* the parser returns an empty structure where it cannot parse
extract_json_from_response_lenient(text) ==
    IF ~BraceMatch(text) THEN Returns("empty")
    ELSE IF json_loads(BraceGroup(text)).ok THEN Returns("payload")
    ELSE IF json_loads(Without(BraceGroup(text), {"fence", "fence_json"})).ok
         THEN Returns("payload")
    ELSE Returns("empty")

\* LLMResumeParser._extract_json_from_response (the result of parse_latex)
extract_json_from_response(text) ==
    IF ~BraceMatch(text) THEN Raises("ValueError")
    ELSE IF json_loads(BraceGroup(text)).ok THEN Returns("payload")
    ELSE IF json_loads(Without(BraceGroup(text), {"fence", "fence_json"})).ok
         THEN Returns("payload")
    ELSE Raises("ValueError")

\* BulletAdapter._extract_adaptation_from_response
extract_adaptation_from_response(text) ==
    IF ~BraceMatch(text) THEN Returns("fallback")
    ELSE IF json_loads(BraceGroup(text)).ok THEN Returns("payload")
    ELSE IF json_loads(Without(BraceGroup(text), {"fence", "fence_json"})).ok
         THEN Returns("payload")
    ELSE IF json_loads(ReplaceQuotes(
                Without(BraceGroup(text), {"fence", "fence_json"}))).ok
         THEN Returns("payload")
    ELSE Returns("fallback")

\* the words in which re.search(r'\b(\d+)\b') finds an integer: the payload
\* holds "rank": 1
HasInteger(w) == w \in {"digits", "neg_digits", "obj", "obj_sq"}

FirstInteger(text) ==
    LET i == CHOOSE i \in DOMAIN text :
                HasInteger(text[i]) /\ \A k \in 1..(i - 1) : ~HasInteger(text[k])
    IN  IF text[i] \in {"digits", "neg_digits"} THEN DigitsValue ELSE 1

\* the threshold call fails when its response holds no integer
threshold_from_text_strict(text) ==
    IF text = <<"digits">> THEN Returns(DigitsValue)
    ELSE IF text = <<"neg_digits">> THEN Returns(-DigitsValue)
    ELSE IF \E i \in DOMAIN text : HasInteger(text[i])
         THEN Returns(FirstInteger(text))
    ELSE Raises("ValueError")

\* determine_inclusion_threshold, lines 236-247, on the response text
threshold_from_text(text) ==
    IF text = <<"digits">> THEN Returns(DigitsValue)
    ELSE IF text = <<"neg_digits">> THEN Returns(-DigitsValue)
    ELSE IF \E i \in DOMAIN text : HasInteger(text[i])
         THEN Returns(FirstInteger(text))
    ELSE Returns(DefaultThreshold)

InitParse ==
    /\ sel_pc = "idle"
    /\ parsed_resume = NoResume
    /\ ranking_result = NoRanking
    /\ threshold_response = NoResponse
    /\ threshold_result = NoThresholdResult
    /\ filtered_resume = NoFiltered
    /\ filtered_blocks = {}
    /\ RenderIdle
    /\ CorrectIdle
    /\ RunIdle
    /\ p_text \in Texts
    /\ p_parser = "none"
    /\ p_outcome = NoOutcome

\* BlockRanker.rank_blocks receives the response
ApplyRankBlocks ==
    /\ p_parser = "none"
    /\ p_parser' = "rank_blocks"
    /\ p_outcome' = rank_blocks(p_text)
    /\ UNCHANGED p_text
    /\ UNCHANGED <<selVars, renderVars, corrVars, runVars>>

\* JobCondenser.condense receives the response
ApplyCondense ==
    /\ p_parser = "none"
    /\ p_parser' = "condense"
    /\ p_outcome' = condense(p_text)
    /\ UNCHANGED p_text
    /\ UNCHANGED <<selVars, renderVars, corrVars, runVars>>

\* LLMResumeParser.parse_latex receives the response
ApplyParseLatex ==
    /\ p_parser = "none"
    /\ p_parser' = "parse_latex"
    /\ p_outcome' = extract_json_from_response(p_text)
    /\ UNCHANGED p_text
    /\ UNCHANGED <<selVars, renderVars, corrVars, runVars>>

\* BulletAdapter._extract_adaptation_from_response receives the response
ApplyExtractAdaptation ==
    /\ p_parser = "none"
    /\ p_parser' = "extract_adaptation"
    /\ p_outcome' = extract_adaptation_from_response(p_text)
    /\ UNCHANGED p_text
    /\ UNCHANGED <<selVars, renderVars, corrVars, runVars>>

\* determine_inclusion_threshold receives the response
ApplyThreshold ==
    /\ p_parser = "none"
    /\ p_parser' = "threshold"
    /\ p_outcome' = threshold_from_text(p_text)
    /\ UNCHANGED p_text
    /\ UNCHANGED <<selVars, renderVars, corrVars, runVars>>

NextParse ==
    \/ ApplyRankBlocks
    \/ ApplyCondense
    \/ ApplyParseLatex
    \/ ApplyExtractAdaptation
    \/ ApplyThreshold

SpecParse == InitParse /\ [][NextParse]_vars

---------------------------------------------------------------------------
(* Markup extraction: the two extractors applied to a synthesis response *)

\* longest synthesis response, in words
MaxMarkupWords == 5

\* A synthesis response is a sequence of whitespace-separated words:
\*   prose        a word without backquote or LaTeX command
\*   markup       the document, \documentclass ... \end{document}
\*   fence        ```          fence_latex  ```latex
\* and what an extractor returns may also hold
\*   latex        the language tag, left over from ```latex
MarkupWords == {"prose", "markup", "fence", "fence_latex"}

MarkupTexts == SeqsUpTo(MarkupWords, MaxMarkupWords)

IsMarkupFence(w) == w \in {"fence", "fence_latex"}

\* the text holds ``` at least twice
TwoFences(text) ==
    \E i, j \in DOMAIN text :
        i < j /\ IsMarkupFence(text[i]) /\ IsMarkupFence(text[j])

FirstFence(text) ==
    CHOOSE i \in DOMAIN text :
        IsMarkupFence(text[i]) /\ \A k \in 1..(i - 1) : ~IsMarkupFence(text[k])

SecondFence(text) ==
    CHOOSE j \in DOMAIN text :
        /\ j > FirstFence(text) /\ IsMarkupFence(text[j])
        /\ \A k \in (FirstFence(text) + 1)..(j - 1) : ~IsMarkupFence(text[k])

\* the words between the first ``` and the one that follows it
BetweenFences(text) == SubSeq(text, FirstFence(text) + 1, SecondFence(text) - 1)

\* ResumeBuilder._extract_latex_code: the stripped response when it starts
\* with \documentclass; else group 1 of ```(?:latex)?\s*([\s\S]*?)\s*```; else
\* the first \documentclass ... \end{document}; else the stripped response
extract_latex_code(text) ==
    IF text # <<>> /\ text[1] = "markup" THEN Returns(text)
    ELSE IF TwoFences(text) THEN Returns(BetweenFences(text))
    ELSE IF "markup" \in Range(text) THEN Returns(<<"markup">>)
    ELSE Returns(text)

\* ResumeReformatter._extract_latex_from_response: response_text.split("```"),
\* parts[1].strip() when there are three parts or more (the tag of ```latex
\* is the start of parts[1]); else the stripped response
extract_latex_from_response(text) ==
    IF TwoFences(text)
    THEN Returns((IF text[FirstFence(text)] = "fence_latex" THEN <<"latex">> ELSE <<>>)
                 \o BetweenFences(text))
    ELSE Returns(text)

InitExtract ==
    /\ sel_pc = "idle"
    /\ parsed_resume = NoResume
    /\ ranking_result = NoRanking
    /\ threshold_response = NoResponse
    /\ threshold_result = NoThresholdResult
    /\ filtered_resume = NoFiltered
    /\ filtered_blocks = {}
    /\ RenderIdle
    /\ CorrectIdle
    /\ RunIdle
    /\ p_text \in MarkupTexts
    /\ p_parser = "none"
    /\ p_outcome = NoOutcome

\* ResumeBuilder._generate_latex hands the response to _extract_latex_code
ApplyExtractLatexCode ==
    /\ p_parser = "none"
    /\ p_parser' = "extract_latex_code"
    /\ p_outcome' = extract_latex_code(p_text)
    /\ UNCHANGED p_text
    /\ UNCHANGED <<selVars, renderVars, corrVars, runVars>>

\* ResumeReformatter.regenerate_resume hands the response to
\* _extract_latex_from_response
ApplyExtractLatexFromResponse ==
    /\ p_parser = "none"
    /\ p_parser' = "extract_latex_from_response"
    /\ p_outcome' = extract_latex_from_response(p_text)
    /\ UNCHANGED p_text
    /\ UNCHANGED <<selVars, renderVars, corrVars, runVars>>

NextExtract ==
    \/ ApplyExtractLatexCode
    \/ ApplyExtractLatexFromResponse

SpecExtract == InitExtract /\ [][NextExtract]_vars

---------------------------------------------------------------------------
(* The selection pipeline *)

InitSelect ==
    /\ sel_pc = "parse"
    /\ parsed_resume = NoResume
    /\ ranking_result = NoRanking
    /\ threshold_response = NoResponse
    /\ threshold_result = NoThresholdResult
    /\ filtered_resume = NoFiltered
    /\ filtered_blocks = {}
    /\ RenderIdle
    /\ CorrectIdle
    /\ RunIdle
    /\ ParseIdle

\* LLMResumeParser.parse_latex returns the block dictionary
ParseLatex ==
    /\ sel_pc = "parse"
    /\ \E r \in Resumes : parsed_resume' = r
    /\ sel_pc' = "rank"
    /\ UNCHANGED <<ranking_result, threshold_response, threshold_result,
                   filtered_resume, filtered_blocks>>
    /\ UNCHANGED <<renderVars, corrVars, runVars, parseVars>>

\* BlockRanker.rank_resume_blocks: filter_blocks, then rank_blocks, which
\* returns whatever the ranker's reply parses to
RankResumeBlocks ==
    /\ sel_pc = "rank"
    /\ filtered_blocks' = filter_blocks(parsed_resume)
    /\ \E reply \in RankerPayloads \cup {ParseErrorResult} :
          ranking_result' = parse_ranking_response(reply)
    /\ sel_pc' = "threshold"
    /\ UNCHANGED <<parsed_resume, threshold_response, threshold_result, filtered_resume>>
    /\ UNCHANGED <<renderVars, corrVars, runVars, parseVars>>

DetermineThresholdFails ==
    /\ sel_pc = "threshold"
    /\ ThresholdRaises(ranking_result, parsed_resume)
    /\ sel_pc' = "threshold_failed"
    /\ UNCHANGED <<parsed_resume, ranking_result, threshold_response, threshold_result,
                   filtered_resume, filtered_blocks>>
    /\ UNCHANGED <<renderVars, corrVars, runVars, parseVars>>

DetermineThreshold ==
    /\ sel_pc = "threshold"
    /\ ~ThresholdRaises(ranking_result, parsed_resume)
    /\ \E resp \in ThresholdResponses :
          /\ threshold_response' = resp
          /\ threshold_result' =
                determine_inclusion_threshold(ranking_result, parsed_resume, resp)
          /\ ranking_result' =
                ranking_after_threshold(ranking_result, threshold_result')
    /\ sel_pc' = "build"
    /\ UNCHANGED <<parsed_resume, filtered_resume, filtered_blocks>>
    /\ UNCHANGED <<renderVars, corrVars, runVars, parseVars>>

\* ResumeBuilder.build_resume, first step
FilterResume ==
    /\ sel_pc = "build"
    /\ filtered_resume' = filter_resume_by_threshold(parsed_resume, threshold_result)
    /\ sel_pc' = "filtered"
    /\ UNCHANGED <<parsed_resume, ranking_result, threshold_response, threshold_result,
                   filtered_blocks>>
    /\ UNCHANGED <<renderVars, corrVars, runVars, parseVars>>

NextSelect ==
    \/ ParseLatex
    \/ RankResumeBlocks
    \/ DetermineThresholdFails
    \/ DetermineThreshold
    \/ FilterResume

SpecSelect == InitSelect /\ [][NextSelect]_vars

---------------------------------------------------------------------------
(* Claims about the selection pipeline (checked under SpecSelect) *)

\* the four kinds the ranker never ranks
AlwaysKept(resume, b) ==
    resume[b] # NoType /\ Lower(resume[b]) \in excluded_types

\* every block that is not of an always-kept kind
Rankable(resume, b) == ~AlwaysKept(resume, b)

Filtered == sel_pc = "filtered"

RankedWithin(result, b) ==
    \E i \in DOMAIN result.ranked_list :
        /\ result.ranked_list[i].block_id = b
        /\ result.ranked_list[i].rank <= result.threshold

\* C1: every block whose kind is contact information, education, skills or
\* professional summary is in the filtered resume handed to synthesis,
\* whatever must_include, ranked_list and threshold are.
C1_AlwaysKeptPresent ==
    Filtered =>
        \A b \in BlockIds :
            AlwaysKept(parsed_resume, b) => b \in filtered_resume.blocks

\* C2: the rankable blocks of the filtered resume are exactly the must_include
\* blocks plus the ranked_list blocks with rank <= threshold.
C2_RankableSelection ==
    Filtered =>
        \A b \in BlockIds :
            Rankable(parsed_resume, b) =>
                (b \in filtered_resume.blocks
                    <=> \/ b \in Range(threshold_result.must_include)
                        \/ RankedWithin(threshold_result, b))

\* C2 witness: a filtered resume with a rankable must_include block, a rankable
\* ranked block inside the threshold that was kept, and a rankable ranked block
\* beyond the threshold that was dropped.
C2_Witness ==
    /\ Filtered
    /\ \E a, b, c \in BlockIds :
          /\ Rankable(parsed_resume, a) /\ Rankable(parsed_resume, b)
          /\ Rankable(parsed_resume, c)
          /\ a \in Range(threshold_result.must_include)
          /\ a \in filtered_resume.blocks
          /\ b # a /\ RankedWithin(threshold_result, b)
          /\ b \in filtered_resume.blocks
          /\ c \notin Range(threshold_result.must_include)
          /\ ~RankedWithin(threshold_result, c)
          /\ \E i \in DOMAIN threshold_result.ranked_list :
                threshold_result.ranked_list[i].block_id = c
          /\ c \notin filtered_resume.blocks

RankedIds(ranking) == [i \in DOMAIN ranking.ranked_list |-> ranking.ranked_list[i].block_id]

Occurrences(s, x) == Cardinality({i \in DOMAIN s : s[i] = x})

\* must_include and ranked_list name every rankable block exactly once between
\* them and name nothing else
IsPartition(ranking, resume) ==
    /\ ~ranking.error
    /\ \A b \in filter_blocks(resume) :
          Occurrences(ranking.must_include \o RankedIds(ranking), b) = 1
    /\ Range(ranking.must_include \o RankedIds(ranking)) \subseteq filter_blocks(resume)

\* C3: the result of rank_resume_blocks has must_include and ranked_list forming
\* a set-partition of the rankable blocks, for every reply of the ranker.
C3_RankingIsPartition ==
    sel_pc = "threshold" => IsPartition(ranking_result, parsed_resume)

ThresholdStored == sel_pc \in {"build", "filtered"}

\* C4: the stored threshold satisfies 0 <= threshold <= len(ranked_list), for
\* every reply of the threshold call.
C4_ThresholdInRange ==
    ThresholdStored =>
        /\ 0 <= threshold_result.threshold
        /\ threshold_result.threshold <= Len(threshold_result.ranked_list)

WithThreshold(result, t) == [result EXCEPT !.threshold = t]

ThresholdValues == MinResp..(MaxResp + 1)

\* the blocks the filter keeps when the stored threshold is replaced by t
KeptAt(t) ==
    filter_resume_by_threshold(parsed_resume, WithThreshold(threshold_result, t)).blocks

\* C5: filtering is monotonic in the threshold: every block of the filtered
\* resume computed for the stored threshold t1 is in the filtered resume for
\* every threshold t2 >= t1 (same parsed resume, must_include, ranked_list).
C5_FilterMonotonic ==
    Filtered =>
        \A t2 \in ThresholdValues :
            threshold_result.threshold <= t2 =>
                filtered_resume.blocks \subseteq KeptAt(t2)

\* C5 witness: the filter has run and raising the threshold adds a block.
C5_Witness ==
    /\ Filtered
    /\ \E t \in ThresholdValues :
          /\ t > threshold_result.threshold
          /\ filtered_resume.blocks # KeptAt(t)
          /\ filtered_resume.blocks # {}


---------------------------------------------------------------------------
(* Properties of latex_to_pdf, checked under SpecRender *)

Exited(p) == render[p].pc \in {"returned", "raised"}

\* C6: once latex_to_pdf has returned or raised, the temporary working
\* directory it created no longer exists and nothing of it is left, on every
\* exit path (success, missing PDF, process error, copy failure, other error).
C6_TempDirRemoved ==
    \A p \in Renders :
        Exited(p) => p \notin temp_dirs /\ tmp_files[p] = {}

\* one invocation has returned and another has raised while copying, after
\* both had a working directory holding the compiled PDF
C6_Witness ==
    \E p, q \in Renders :
        /\ render[p].pc = "returned" /\ render[p].pdf_found = "yes"
        /\ render[q].pc = "raised" /\ render[q].outcome = "copy_error"
        /\ temp_dirs = {}

\* C8: latex_to_pdf returns a path only if the compiled PDF was in the working
\* directory after the compilation, and an invocation whose compilation left
\* no PDF raises, whatever exit status pdflatex reported.
C8_ReturnsOnlyWithPdf ==
    \A p \in Renders :
        /\ render[p].pc \in {"copy", "returned"} => render[p].pdf_found = "yes"
        /\ render[p].pc = "returned" => render[p].result # None
        /\ render[p].pdf_found = "no" =>
              render[p].pc = "raised" /\ render[p].result = None

\* one invocation returned with its PDF, another raised for want of a PDF
\* although every run of pdflatex exited with status 0
C8_Witness ==
    \E p, q \in Renders :
        /\ render[p].pc = "returned" /\ render[p].pdf_found = "yes"
        /\ render[q].pc = "raised" /\ render[q].pdf_found = "no"
        /\ ~render[q].nonzero_seen

\* C9 (as stated): whenever pdflatex reports a nonzero exit status, latex_to_pdf
\* fails and returns no path, even if a PDF was produced.
C9_NonzeroExitFails ==
    \A p \in Renders :
        render[p].nonzero_seen => render[p].pc # "returned"

\* C9 (amended): utils.latex.latex_to_pdf fails whenever its run of pdflatex
\* reports a nonzero exit status, PDF or not; ResumeBuilder.latex_to_pdf does
\* not look at the exit status: once compilation is over it goes on to return
\* the path exactly when the PDF is in the working directory.
C9_ExitStatusPerImplementation ==
    \A p \in Renders :
        /\ render[p].impl = "utils" /\ render[p].nonzero_seen =>
              render[p].pc \notin {"copy", "returned"}
        /\ render[p].impl = "utils" /\ render[p].nonzero_seen /\
           render[p].pdf_found # "unchecked" =>
              render[p].pc = "raised" /\ render[p].outcome = "nonzero_exit"
        /\ render[p].impl = "ResumeBuilder" /\ render[p].pdf_found # "unchecked" =>
              (render[p].pdf_found = "no" <=> render[p].outcome = "no_pdf")

\* ResumeBuilder returned a path after a nonzero exit status, utils raised
\* on a nonzero exit status although the PDF was there
C9_Witness ==
    \E p, q \in Renders :
        /\ render[p].impl = "ResumeBuilder" /\ render[p].nonzero_seen
        /\ render[p].pc = "returned"
        /\ render[q].impl = "utils" /\ render[q].nonzero_seen
        /\ render[q].pdf_found = "yes" /\ render[q].pc = "raised"

\* C10: every invocation has run pdflatex exactly twice by the time it looks
\* for the output PDF, in ResumeBuilder.latex_to_pdf and in
\* utils.latex.latex_to_pdf alike.
C10_TwoRunsBeforeCheck ==
    \A p \in Renders :
        render[p].pc \in {"check", "copy", "returned"} \/
        render[p].pdf_found # "unchecked" => render[p].runs = 2

---------------------------------------------------------------------------
(* Properties of the correction stage, checked under SpecCorrect *)

\* C7 (as stated): one invocation of analyze_and_reformat issues exactly one
\* inspect call, one regeneration call and one re-render, in the order
\* Rendered, Inspected, Corrected, Rerendered, never going back to an earlier
\* state, whether or not a step fails: over the invocation no call is ever
\* issued a second time, and an invocation that returns has issued each once.
C7_ExactlyOneCycle ==
    /\ calls.inspect <= 1 /\ calls.regenerate <= 1 /\ calls.rerender <= 1
    /\ c_status = "returned" =>
          calls.inspect = 1 /\ calls.regenerate = 1 /\ calls.rerender = 1

\* the calls an attempt has completed when its body is in state st
CallsAt(st) ==
    CASE st = "Rendered"  -> NoCalls
      [] st = "Inspected" -> [NoCalls EXCEPT !.inspect = 1]
      [] st = "Corrected" -> [NoCalls EXCEPT !.inspect = 1, !.regenerate = 1]
      [] OTHER            -> [inspect |-> 1, regenerate |-> 1, rerender |-> 1]

\* C7 (amended): within one attempt of the retry wrapper the body issues at
\* most one inspect call, one regeneration call and one re-render, in the
\* order Rendered, Inspected, Corrected, Rerendered, and an attempt in which
\* no step fails issues exactly one of each; a failing step ends the attempt
\* and the wrapper starts the body again from Rendered, for at most
\* max_retries + 1 attempts, so over the invocation each call is issued at
\* most once per attempt and it returns only from Rerendered.
C7_OneCyclePerAttempt ==
    /\ attempt \in 0..max_retries
    /\ c_status \in {"running", "returned"} =>
          att_calls = CallsAt(CorrectionState(c_pc))
    /\ c_status = "returned" <=> CorrectionState(c_pc) = "Rerendered"
    /\ calls.inspect <= attempt + 1
    /\ calls.regenerate <= calls.inspect
    /\ calls.rerender <= calls.regenerate
    /\ c_status = "raised" => attempt = max_retries

\* an invocation returned from Rerendered on a later attempt, after an
\* earlier attempt had already issued its inspect call and failed
C7_Witness ==
    /\ c_status = "returned"
    /\ attempt > 0
    /\ calls.inspect > 1
    /\ att_calls = [inspect |-> 1, regenerate |-> 1, rerender |-> 1]

---------------------------------------------------------------------------
(* Properties of the pipeline run, checked under SpecPipeline *)

RunFailed == run_pc = "failed"

\* C11 (as stated): one invocation of a stage wrapped by
\* retry_on_error(max_retries=3) calls the stage function at most 3 times.
C11_AtMostThreeCalls ==
    \A s \in StageNames : run_calls[s] <= 3

\* C11 (amended): one invocation of a wrapped stage calls the stage function
\* at most max_retries + 1 = 4 times, the first call and up to three retries,
\* and exactly that often when every call fails.
C11_AtMostRetriesPlusOneCalls ==
    /\ \A s \in StageNames : run_calls[s] <= max_retries + 1
    /\ run_raised # NoExc =>
          /\ run_calls[run_raised.stage] = max_retries + 1
          /\ run_failures[run_raised.stage] = max_retries + 1

\* a stage was called four times, every call raised, and the run has failed
C11_Witness ==
    /\ RunFailed
    /\ run_raised # NoExc
    /\ run_calls[run_raised.stage] = 4
    /\ run_failures[run_raised.stage] = 4

\* what holds of the wrapper at every moment of an invocation
WrapperSafe ==
    /\ run_attempt \in 0..max_retries
    /\ run_status = "returned" =>
          /\ run_result # NoResult
          /\ run_result.stage = run_pc
          /\ run_result.value # None
          /\ run_result.attempt = run_attempt
          /\ run_calls[run_pc] = run_attempt + 1
          /\ run_failures[run_pc] = run_attempt
    /\ \A s \in run_returned : run_calls[s] = run_failures[s] + 1
    /\ run_raised # NoExc =>
          /\ RunFailed
          /\ run_raised = run_exc
          /\ run_raised.attempt = run_attempt
          /\ run_raised.stage \notin run_returned
          /\ run_calls[run_raised.stage] = run_failures[run_raised.stage]
    /\ RunFailed => run_raised # NoExc

\* C12: every invocation of a retry-wrapped stage terminates; it returns the
\* result of the first attempt that succeeds and makes no attempt after it,
\* or raises the exception of the last attempt when every attempt fails; it
\* never returns without a result and never retries forever.
C12_WrapperTerminates ==
    /\ []WrapperSafe
    /\ (run_status = "running") ~> (run_status = "returned" \/ RunFailed)

\* one stage returned the result of a later attempt after earlier attempts
\* had raised, and a later stage has raised the exception of its last attempt
C12_Witness ==
    /\ RunFailed
    /\ run_raised.attempt = max_retries
    /\ \E s \in run_returned : run_failures[s] > 0

\* C13: the stages start in the order parse, condense, rank, threshold,
\* assemble and render, then the correction stage (inspect, regenerate,
\* re-render); a stage starts only after the preceding stage has returned,
\* and after a terminal failure no later stage starts.
C13_StagesInOrder ==
    /\ Len(run_started) <= Len(Stages)
    /\ \A i \in DOMAIN run_started :
          /\ run_started[i] = Stages[i]
          /\ i > 1 => Stages[i - 1] \in run_returned
    /\ run_raised # NoExc =>
          /\ run_started # <<>>
          /\ run_started[Len(run_started)] = run_raised.stage

\* four stages returned in order, the fifth was started after them and has
\* failed terminally, and the correction stage was never started
C13_Witness ==
    /\ RunFailed
    /\ run_started = SubSeq(Stages, 1, 5)
    /\ run_returned = {Stages[i] : i \in 1..4}

\* C18: when the run ends in an error, the stage reported as failed is the
\* stage whose external call or response parsing failed: a stage whose
\* response could not be parsed is the one that raises, not a later stage.
C18_FailedStageIsFaultyStage ==
    RunFailed => run_unparsed \subseteq {run_raised.stage}

---------------------------------------------------------------------------
(* Properties of the response parsers, checked under SpecParse *)

\* a response in which no integer stands: prose, fences, braces around text
\* that is not JSON, letters with digits glued to them
ContainsNoInteger(text) ==
    Range(text) \subseteq {"prose", "alnum", "fence", "fence_json", "bad_obj"}

\* C14: when the response of the threshold call contains no integer,
\* determine_inclusion_threshold does not fail and the threshold it returns
\* is the fixed default 2.
C14_DefaultThresholdOnNoInteger ==
    p_parser = "threshold" /\ ContainsNoInteger(p_text) =>
        /\ p_outcome.status = "returned"
        /\ p_outcome.value = 2

\* the threshold call answered in prose and the default was returned
C14_Witness ==
    /\ p_parser = "threshold"
    /\ p_text = <<"prose", "alnum", "prose">>
    /\ p_outcome = Returns(2)

\* a response from which no JSON payload can be recovered
NoJsonPayload(text) ==
    Range(text) \subseteq {"prose", "alnum", "fence", "fence_json", "obj_sq", "bad_obj"}

\* C15: when the response holds no recoverable JSON payload, rank_blocks and
\* condense fail with an error; neither returns a value to its caller.
C15_UnparseableResponseRaises ==
    p_parser \in {"rank_blocks", "condense"} /\ NoJsonPayload(p_text) =>
        p_outcome.status = "raised"

\* C16: parse_latex raises whenever the response holds no parseable JSON
\* object (no braces at all, or braces around invalid JSON); it returns no
\* partial or empty block collection then.
C16_ParseLatexRaisesWithoutJson ==
    p_parser = "parse_latex" /\ "obj" \notin Range(p_text) =>
        p_outcome = Raises("ValueError")

\* parse_latex raised on a fenced block holding braces around invalid JSON
C16_Witness ==
    /\ p_parser = "parse_latex"
    /\ p_text = <<"fence_json", "bad_obj", "fence">>
    /\ p_outcome.status = "raised"

\* the payload given directly, in a fenced code block, and in single quotes
ThreeForms ==
    {<<"obj">>, <<"fence_json", "obj", "fence">>, <<"fence", "obj", "fence">>,
     <<"obj_sq">>}

\* C20: the resume parser, the block ranker and the bullet adapter each
\* return the payload's structure for the payload given directly, wrapped in
\* a fenced code block, and written with single quotes.
C20_ThreeFormsSameStructure ==
    p_parser \in {"parse_latex", "rank_blocks", "extract_adaptation"} /\
    p_text \in ThreeForms =>
        p_outcome = Returns("payload")

---------------------------------------------------------------------------
(* Further properties of the selection pipeline, checked under SpecSelect *)

Ranked == sel_pc \in {"threshold", "threshold_failed", "build", "filtered"}

\* C17 (as stated): the blocks filter_blocks passes to ranking are exactly the
\* blocks whose kind is not contact information, education, skills or
\* professional summary: no always-kept block is ranked and every other block
\* is.
C17_RankedAreTheOtherBlocks ==
    Ranked =>
        filtered_blocks =
            {b \in BlockIds :
                Lower(parsed_resume[b]) \notin
                    {"contact information", "education", "skills",
                     "professional summary"}}

\* C17 (amended): filter_blocks passes to ranking exactly the blocks that
\* carry a block_type which, in lower case, is none of contact information,
\* education, skills, professional summary; a block without a block_type is
\* not ranked either.
C17_RankedAreTheOtherTypedBlocks ==
    Ranked =>
        /\ \A b \in BlockIds :
              b \in filtered_blocks <=>
                 /\ parsed_resume[b] # NoType
                 /\ parsed_resume[b] \in {"work experience", "project"}
        /\ \A b \in BlockIds :
              parsed_resume[b] \in {"contact information", "Education", "skills",
                                    "professional summary", NoType}
                 => b \notin filtered_blocks

\* a resume with a capitalised Education block, a work experience block and a
\* block without block_type has been through filter_blocks
C17_Witness ==
    /\ Ranked
    /\ \E a, b, c \in BlockIds :
          /\ parsed_resume[a] = "Education"
          /\ parsed_resume[b] = "work experience"
          /\ parsed_resume[c] = NoType
          /\ filtered_blocks = {b}

\* C19: in every ranking result the pipeline accepts, the ranks of ranked_list
\* are exactly 1..n for n = len(ranked_list), each used once.
C19_RanksAreOneToN ==
    Filtered =>
        /\ {threshold_result.ranked_list[i].rank :
               i \in DOMAIN threshold_result.ranked_list}
              = 1..Len(threshold_result.ranked_list)
        /\ \A i, j \in DOMAIN threshold_result.ranked_list :
              threshold_result.ranked_list[i].rank =
              threshold_result.ranked_list[j].rank => i = j

\* C21: determine_inclusion_threshold and _filter_resume_by_threshold leave
\* the artifacts they receive as they were: across either call the parsed
\* resume and the ranking result keep their keys and values, the threshold
\* result handed to the filter keeps its own, and what each call returns is
\* a dictionary of its own.
C21_ArgumentsUnchanged ==
    [][/\ sel_pc = "threshold" =>
            /\ parsed_resume' = parsed_resume
            /\ ranking_result' = ranking_result
       /\ sel_pc = "build" =>
            /\ parsed_resume' = parsed_resume
            /\ ranking_result' = ranking_result
            /\ threshold_result' = threshold_result]_vars

\* both calls have been made on a ranking with a ranked block: the threshold
\* result carries the added keys, the ranking result is the ranker's reply
C21_Witness ==
    /\ Filtered
    /\ ranking_result \in RankerPayloads
    /\ ranking_result.ranked_list # <<>>
    /\ threshold_result.enhanced_ranked_list # <<>>
    /\ threshold_result.threshold = 1
    /\ filtered_resume.blocks # {}

---------------------------------------------------------------------------
(* Further properties of latex_to_pdf, checked under SpecRender *)

\* C22: for two render invocations interleaved in any order, the files an
\* invocation writes during compilation lie in its own temporary directory
\* (invocation p writes tmp_files[p] only, in a directory of its own making),
\* and the PDF path an invocation has returned holds the PDF compiled from
\* its own markup, also when neither call gives an output path.
C22_RendersDoNotCollide ==
    \A p \in Renders :
        /\ tmp_files[p] # {} => p \in temp_dirs
        /\ render[p].pc = "returned" => out_files[render[p].result] = p

\* C27: build_resume_pdf persists the markup file and the PDF together: once
\* a call has returned or raised, it has written both <output_file>.tex and
\* <output_file>.pdf or it has written neither.
C27_TexAndPdfTogether ==
    \A p \in Renders :
        render[p].caller = "build_resume_pdf" /\ Exited(p) =>
            (render[p].latex_path # None <=> render[p].pc = "returned")

---------------------------------------------------------------------------
(* Further properties of the correction stage, checked under SpecCorrect *)

\* reformat_resume is between pdf_to_images and the end of analyze_with_vlm
InReformatResume == c_status = "running" /\ c_pc = "analyze_with_vlm"

\* C23: the temporary directory pdf_to_images creates for the page images is
\* ephemeral: once the reformat_resume call that used it has returned or
\* raised, no page-image directory exists any more, on the success path as
\* on the failure path.
C23_ImageDirEphemeral ==
    ~InReformatResume => image_dirs = 0

---------------------------------------------------------------------------
(* The selection boundary, checked under SpecSelect *)

\* positions of ranked_list inside and beyond the threshold
WithinThreshold(result) ==
    {i \in DOMAIN result.ranked_list :
        result.ranked_list[i].rank <= result.threshold}

BeyondThreshold(result) == DOMAIN result.ranked_list \ WithinThreshold(result)

\* C24: the boundary blocks handed to the inspector agree with the selection
\* of _filter_resume_by_threshold, for every threshold and every order of
\* ranked_list: lastIncluded is a ranked block of the largest rank <=
\* threshold and is in the filtered resume, firstExcluded is a ranked block of
\* the smallest rank > threshold and is not in the filtered resume, and each
\* is absent exactly when there is no such block.
C24_BoundaryAgreesWithSelection ==
    Filtered =>
        LET r == threshold_result
            last == last_block_within(r)
            first == first_block_outside(r)
        IN  /\ last = None <=> WithinThreshold(r) = {}
            /\ last # None =>
                  /\ last \in filtered_resume.blocks
                  /\ \E i \in WithinThreshold(r) :
                        /\ r.ranked_list[i].block_id = last
                        /\ \A j \in WithinThreshold(r) :
                              r.ranked_list[j].rank <= r.ranked_list[i].rank
            /\ first = None <=> BeyondThreshold(r) = {}
            /\ first # None =>
                  /\ first \notin filtered_resume.blocks
                  /\ \E i \in BeyondThreshold(r) :
                        /\ r.ranked_list[i].block_id = first
                        /\ \A j \in BeyondThreshold(r) :
                              r.ranked_list[i].rank <= r.ranked_list[j].rank

\* the blocks handed to ranking that the result names in neither list
Omitted(ranking, resume) ==
    {b \in filter_blocks(resume) :
        /\ b \notin Range(ranking.must_include)
        /\ \A i \in DOMAIN ranking.ranked_list : ranking.ranked_list[i].block_id # b}

\* the result has both lists and every block it names has a block_type
ListsReadable(ranking, resume) ==
    /\ ~ranking.error
    /\ \A i \in DOMAIN ranking.ranked_list :
          resume[ranking.ranked_list[i].block_id] # NoType
    /\ \A i \in DOMAIN ranking.must_include :
          resume[ranking.must_include[i]] # NoType

\* C25: when the ranker's result leaves a rankable block out of both
\* must_include and ranked_list, no stage detects it: threshold determination
\* does not fail on a result whose lists it can read, however many blocks the
\* result omits, filtering completes, and every omitted block is absent from
\* the filtered resume.
C25_OmissionUndetected ==
    /\ sel_pc = "threshold_failed" => ~ListsReadable(ranking_result, parsed_resume)
    /\ sel_pc \in {"build", "filtered"} =>
          threshold_result.must_include = ranking_result.must_include /\
          threshold_result.ranked_list = ranking_result.ranked_list
    /\ Filtered =>
          \A b \in Omitted(ranking_result, parsed_resume) :
              b \notin filtered_resume.blocks

\* a result that names one of two rankable blocks went through threshold
\* determination and filtering: the named block was kept, the other is gone
C25_Witness ==
    /\ Filtered
    /\ Omitted(ranking_result, parsed_resume) # {}
    /\ \E a \in filter_blocks(parsed_resume) :
          /\ a \in Range(ranking_result.must_include)
          /\ a \in filtered_resume.blocks
    /\ \E b \in Omitted(ranking_result, parsed_resume) :
          b \notin filtered_resume.blocks

\* C29: the total_blocks field of the filtered resume returned by
\* _filter_resume_by_threshold equals the number of block entries that
\* filtered resume contains, for every parsed resume and ranking result.
C29_TotalBlocksCountsEntries ==
    Filtered => filtered_resume.total_blocks = Cardinality(filtered_resume.blocks)

---------------------------------------------------------------------------
(* Further properties of the pipeline run, checked under SpecPipeline *)

\* C26: if every external collaborator call succeeds and returns a
\* well-formed payload, a run of the pipeline eventually reaches the final
\* re-rendered document, and no stage exhausts its retries.
C26_WellFormedRunCompletes ==
    /\ [](RunFailed => ~run_wellformed)
    /\ <>(~run_wellformed \/ run_pc = "complete")

---------------------------------------------------------------------------
(* Properties of the markup extractors, checked under SpecExtract *)

\* the response forms: the bare markup, and the markup in a fenced block,
\* plain or tagged latex, with any prose before and after the block
IsResponseForm(text) ==
    \/ text = <<"markup">>
    \/ \E i \in DOMAIN text :
          /\ i + 2 <= Len(text)
          /\ IsMarkupFence(text[i])
          /\ text[i + 1] = "markup"
          /\ text[i + 2] = "fence"
          /\ \A k \in DOMAIN text : k \notin {i, i + 1, i + 2} => text[k] = "prose"

\* C28: the two markup extractors agree: for every response form (bare
\* markup, markup in a plain fenced block, markup in a fenced block with a
\* language tag, prose around a fenced block) each returns the payload
\* without fence markers or language tag, the same markup as the other.
C28_ExtractorsAgree ==
    p_parser \in {"extract_latex_code", "extract_latex_from_response"} /\
    IsResponseForm(p_text) =>
        /\ p_outcome = Returns(<<"markup">>)
        /\ extract_latex_from_response(p_text) = extract_latex_code(p_text)

====
